---- MODULE Spec2Model ----
(***************************************************************************)
(* AyuSahayak front end: the two-stage AI analysis wizard                  *)
(* (components/AIImageAnalysis) and the AI summary viewer                  *)
(* (pages/nurse/AISummary) and the wound-care page that mounts the wizard   *)
(* (pages/nurse/WoundCareAI).                                              *)
(*                                                                         *)
(* React state is modelled by the committed value of every useState cell.  *)
(* An async handler is cut at its awaits: every action below is one        *)
(* synchronous segment of a handler, run to its next await, followed by    *)
(* the re-render.  A handler reads the state cells through the closure of  *)
(* the render in which it was created, so a pending handler carries the    *)
(* values it captured (cR = stage1Result, cA = answers).                   *)
(* A request "fails" when the awaited promise rejects.                     *)
(***************************************************************************)
EXTENDS Integers, Sequences, FiniteSets, TLC

VARIABLES
    conditionType,  \* prop of AIImageAnalysis
    stage,          \* useState("idle")
    loading,        \* useState(false)
    stage1Result,   \* useState(null)
    answers,        \* useState([])
    currentQ,       \* useState(0)
    finalReport,    \* useState(null)
    inflight,       \* pending handlers, each waiting on one request
    run,            \* history: number of analysis runs started so far
    log,            \* history: requests sent, completions and alerts
    passedPatient,  \* AISummary: location.state?.patient || null
    sLoading,       \* AISummary: useState(true)
    aiData,         \* AISummary: useState(null)
    error,          \* AISummary: useState("")
    ref,            \* AISummary: params.get("ref")
    sPc,            \* AISummary: position of useEffect/loadAI
    sLog,           \* history: AISummary's requests and their responses
    pageRef,        \* WoundCareAI: URLSearchParams.get('ref') || ''
    imageUrl,       \* WoundCareAI: useState(null); prop of AIImageAnalysis
    pageLoading,    \* WoundCareAI: useState(true)
    pageAlert,      \* WoundCareAI: the alert raised by fetchPatientImage
    pagePc          \* WoundCareAI: position of useEffect/fetchPatientImage

vars == <<conditionType, stage, loading, stage1Result, answers, currentQ,
          finalReport, inflight, run, log,
          passedPatient, sLoading, aiData, error, ref, sPc, sLog,
          pageRef, imageUrl, pageLoading, pageAlert, pagePc>>

pageVars == <<pageRef, imageUrl, pageLoading, pageAlert, pagePc>>

analysisVars == <<conditionType, stage, loading, stage1Result, answers,
                  currentQ, finalReport, inflight, run, log>>

summaryVars == <<passedPatient, sLoading, aiData, error, ref, sPc, sLog>>

----------------------------------------------------------------------------
(* Bounds *)

MaxRuns == 2        \* Analyze clicks explored
MaxQ == 2           \* longest questions list a stage-1 response carries
MaxCases == 2       \* longest cases list GET /cases/{ref} returns
MaxPhotos == 2      \* longest photos list GET /patients/{ref} returns

----------------------------------------------------------------------------
(* JavaScript values *)

Undefined == "undefined"    \* the JS value undefined (absent field, array hole)
Null == "null"              \* the JS value null
AnswerTexts == {"", "yes"}  \* what the nurse can leave in the input box
ReportTexts == {Undefined, "", "report"}   \* res.data.final_report
NoReportText == "No detailed AI report available."

Stages == {"idle", "analyzing", "questions", "generating", "report"}
ConditionTypes == {"wound", "skin"}

\* stage1Result: id 0 is null; a response carries the id of the run that
\* received it (standing for its top3_classes, top3_probs and rag_summary),
\* whether it has a questions field, and how many questions that holds.
NullResult == [id |-> 0, hasQuestions |-> FALSE, nq |-> 0]

Stage1Data(r) ==
    {[id |-> r, hasQuestions |-> FALSE, nq |-> 0]} \cup
    {[id |-> r, hasQuestions |-> TRUE, nq |-> n] : n \in 0..MaxQ}

\* !x for a string-valued x
Falsy(x) == x \in {Undefined, Null, ""}

\* new Array(n).fill("")
FillEmpty(n) == [i \in 1..n |-> ""]

\* arr[i] with a 0-based index; out of range reads undefined
At(arr, i) == IF i + 1 \in 1..Len(arr) THEN arr[i + 1] ELSE Undefined

\* updated = [...arr]; updated[i] = v   (0-based; writing past the end
\* lengthens the array and leaves holes)
SetAt(arr, i, v) ==
    [k \in 1..(IF i + 1 > Len(arr) THEN i + 1 ELSE Len(arr)) |->
        IF k = i + 1 THEN v ELSE At(arr, k - 1)]

----------------------------------------------------------------------------
(* Routes *)

Stage1Route(ct) == "/api/" \o ct \o "_stage1"
Stage2Route(ct) == "/api/" \o ct \o "_stage2"
saveUrl(ct) == IF ct = "wound" THEN "/patients/ai/save-woundcare"
                               ELSE "/patients/ai/save-skincare"
\* variant: the result key does not follow the condition type
dataKeyAlwaysWound(ct) == "wound_result"

dataKey(ct) == IF ct = "wound" THEN "wound_result" ELSE "skin_result"

----------------------------------------------------------------------------
(* Pending handlers and the history log *)

\* a handler suspended at an await: which request it waits on (id is the
\* position of that request in the log), the run it belongs to, the
\* stage1Result and answers of its closure
Pending(kind, id, r, cR, cA) ==
    [kind |-> kind, id |-> id, run |-> r, cR |-> cR, cA |-> cA]

Entry(ev, req, r, route, key, s1, ans, rep) ==
    [ev |-> ev, req |-> req, run |-> r, route |-> route, key |-> key,
     s1 |-> s1, answers |-> ans, report |-> rep]

Sent(req, r, route, key, s1, ans, rep) ==
    Entry("sent", req, r, route, key, s1, ans, rep)
Ok(req, r, s1, rep) == Entry("ok", req, r, "", "", s1, <<>>, rep)
Failed(req, r) == Entry("failed", req, r, "", "", NullResult, <<>>, Undefined)
Alert(r, msg) == Entry("alert", msg, r, "", "", NullResult, <<>>, Undefined)
Click(button, r) == Entry("click", button, r, "", "", NullResult, <<>>, Undefined)

AnalyzeAlert == "Error analyzing image. Check AI backend logs."
SubmitAlert == "Error generating or saving report."

----------------------------------------------------------------------------
(* AIImageAnalysis *)

\* {stage === "idle" && (... <button onClick={handleAnalyze} disabled={loading}>
AnalyzeCardShown == stage = "idle"

\* variant: the questions card is not taken down while the report is generated
QuestionsCardNotHidden ==
    stage \in {"questions", "generating"} /\ stage1Result # NullResult

\* {stage === "questions" && stage1Result && (... input, Next/Generate button
QuestionsCardShown == stage = "questions" /\ stage1Result # NullResult

\* The synchronous part of handleSubmitAnswers, up to its first await, run
\* with the stage1Result (cR) and answers (cA) of the closure it was created
\* in.  Building the payload reads cR.top3_classes, which throws when cR is
\* null; the throw lands in the handler's own catch and finally.  n is the
\* length of the log when the handler starts.
handleSubmitAnswers(cR, cA, r, n) ==
    IF cR = NullResult
    THEN [stage |-> "idle", loading |-> FALSE, pending |-> {},
          events |-> <<Alert(r, SubmitAlert)>>]
    ELSE [stage |-> "generating", loading |-> TRUE,
          pending |-> {Pending("stage2", n + 1, r, cR, cA)},
          events |-> <<Sent("stage2", r, Stage2Route(conditionType), "",
                            cR, cA, Undefined)>>]

\* handleAnalyze up to `await fetch(imageUrl)`
ClickAnalyze ==
    /\ AnalyzeCardShown
    /\ ~loading                 \* disabled={loading}; if (loading) return
    /\ run < MaxRuns
    /\ run' = run + 1
    /\ loading' = TRUE
    /\ stage' = "analyzing"
    /\ inflight' = inflight \cup {Pending("fetch", Len(log) + 2, run + 1, stage1Result, answers)}
    /\ log' = log \o <<Click("analyze", run + 1),
                       Sent("fetch", run + 1, "imageUrl", "",
                            NullResult, <<>>, Undefined)>>
    /\ UNCHANGED <<conditionType, stage1Result, answers, currentQ, finalReport>>

\* fetch and blob resolved: handleAnalyze up to `await axios.post(..._stage1)`
FetchOk(p) ==
    /\ p \in inflight /\ p.kind = "fetch"
    /\ inflight' = (inflight \ {p}) \cup {Pending("stage1", Len(log) + 2, p.run, p.cR, p.cA)}
    /\ log' = log \o <<Ok("fetch", p.run, NullResult, Undefined),
                       Sent("stage1", p.run, Stage1Route(conditionType), "",
                            NullResult, <<>>, Undefined)>>
    /\ UNCHANGED <<conditionType, stage, loading, stage1Result, answers,
                   currentQ, finalReport, run>>

\* variant: a failed stage-1 POST is sent once more before giving up
AnalyzeFailedRetries(p) ==
    IF p.kind = "stage1" /\ ~ \E i \in 1..Len(log) :
            log[i].ev = "failed" /\ log[i].req = "stage1" /\ log[i].run = p.run
    THEN /\ inflight' = (inflight \ {p}) \cup
                            {Pending("stage1", Len(log) + 2, p.run, p.cR, p.cA)}
         /\ log' = log \o <<Failed(p.kind, p.run),
                            Sent("stage1", p.run, Stage1Route(conditionType), "",
                                 NullResult, <<>>, Undefined)>>
         /\ UNCHANGED <<conditionType, stage, loading, stage1Result, answers,
                        currentQ, finalReport, run>>
    ELSE /\ stage' = "idle"
         /\ loading' = FALSE
         /\ inflight' = inflight \ {p}
         /\ log' = log \o <<Failed(p.kind, p.run), Alert(p.run, AnalyzeAlert)>>
         /\ UNCHANGED <<conditionType, stage1Result, answers, currentQ,
                        finalReport, run>>

\* catch and finally of handleAnalyze
AnalyzeFailed(p) ==
    /\ stage' = "idle"
    /\ loading' = FALSE
    /\ inflight' = inflight \ {p}
    /\ log' = log \o <<Failed(p.kind, p.run), Alert(p.run, AnalyzeAlert)>>
    /\ UNCHANGED <<conditionType, stage1Result, answers, currentQ,
                   finalReport, run>>

FetchFail(p) ==
    /\ p \in inflight /\ p.kind = "fetch"
    /\ AnalyzeFailed(p)

\* the stage-1 POST resolved with res.data = d: rest of handleAnalyze
Stage1Ok(p, d) ==
    /\ p \in inflight /\ p.kind = "stage1"
    /\ stage1Result' = d
    /\ IF ~d.hasQuestions \/ d.nq = 0
       THEN LET sub == handleSubmitAnswers(p.cR, p.cA, p.run, Len(log) + 1) IN
            /\ stage' = sub.stage
            /\ inflight' = (inflight \ {p}) \cup sub.pending
            /\ log' = (log \o <<Ok("stage1", p.run, d, Undefined)>>) \o sub.events
            /\ UNCHANGED answers
       ELSE /\ answers' = FillEmpty(d.nq)
            /\ stage' = "questions"
            /\ inflight' = inflight \ {p}
            /\ log' = Append(log, Ok("stage1", p.run, d, Undefined))
    /\ loading' = FALSE         \* finally of handleAnalyze runs last
    /\ UNCHANGED <<conditionType, currentQ, finalReport, run>>

Stage1Fail(p) ==
    /\ p \in inflight /\ p.kind = "stage1"
    /\ AnalyzeFailed(p)

handleAnswerChange(v) ==
    /\ QuestionsCardShown
    /\ answers' = SetAt(answers, currentQ, v)
    /\ UNCHANGED <<conditionType, stage, loading, stage1Result, currentQ,
                   finalReport, inflight, run, log>>

nextQuestion ==
    /\ QuestionsCardShown
    /\ IF Falsy(At(answers, currentQ))
       THEN UNCHANGED analysisVars      \* alert("Please answer this question.")
       ELSE IF currentQ < stage1Result.nq - 1
       THEN /\ currentQ' = currentQ + 1
            /\ UNCHANGED <<conditionType, stage, loading, stage1Result,
                           answers, finalReport, inflight, run, log>>
       ELSE LET sub == handleSubmitAnswers(stage1Result, answers, run, Len(log) + 1) IN
            /\ stage' = sub.stage
            /\ loading' = sub.loading
            /\ inflight' = inflight \cup sub.pending
            /\ log' = (log \o <<Click("generate", run)>>) \o sub.events
            /\ UNCHANGED <<conditionType, stage1Result, answers, currentQ,
                           finalReport, run>>

\* variant: the save request carries the text put on screen
Stage2OkSavesDisplayed(p, fr) ==
    /\ p \in inflight /\ p.kind = "stage2"
    /\ finalReport' = (IF Falsy(fr) THEN NoReportText ELSE fr)
    /\ stage' = "report"
    /\ inflight' = (inflight \ {p}) \cup
                       {Pending("save", Len(log) + 2, p.run, p.cR, p.cA)}
    /\ log' = log \o <<Ok("stage2", p.run, NullResult, fr),
                       Sent("save", p.run, saveUrl(conditionType),
                            dataKey(conditionType), p.cR, p.cA, finalReport')>>
    /\ UNCHANGED <<conditionType, loading, stage1Result, answers, currentQ, run>>

\* the stage-2 POST resolved with res.data.final_report = fr:
\* handleSubmitAnswers up to `await http.post(saveUrl, ...)`
Stage2Ok(p, fr) ==
    /\ p \in inflight /\ p.kind = "stage2"
    /\ finalReport' = (IF Falsy(fr) THEN NoReportText ELSE fr)
    /\ stage' = "report"
    /\ inflight' = (inflight \ {p}) \cup {Pending("save", Len(log) + 2, p.run, p.cR, p.cA)}
    /\ log' = log \o <<Ok("stage2", p.run, NullResult, fr),
                       Sent("save", p.run, saveUrl(conditionType),
                            dataKey(conditionType), p.cR, p.cA, fr)>>
    /\ UNCHANGED <<conditionType, loading, stage1Result, answers, currentQ, run>>

\* variant: the catch alerts but leaves the stage where it was
SubmitFailedKeepsStage(p) ==
    /\ loading' = FALSE
    /\ inflight' = inflight \ {p}
    /\ log' = log \o <<Failed(p.kind, p.run), Alert(p.run, SubmitAlert)>>
    /\ UNCHANGED <<conditionType, stage, stage1Result, answers, currentQ,
                   finalReport, run>>

\* catch and finally of handleSubmitAnswers
SubmitFailed(p) ==
    /\ stage' = "idle"
    /\ loading' = FALSE
    /\ inflight' = inflight \ {p}
    /\ log' = log \o <<Failed(p.kind, p.run), Alert(p.run, SubmitAlert)>>
    /\ UNCHANGED <<conditionType, stage1Result, answers, currentQ,
                   finalReport, run>>

\* variant: the rejection of the stage-2 POST is swallowed and the save goes out
Stage2FailThenSaves(p) ==
    /\ p \in inflight /\ p.kind = "stage2"
    /\ stage' = "report"
    /\ finalReport' = NoReportText
    /\ inflight' = (inflight \ {p}) \cup
                       {Pending("save", Len(log) + 2, p.run, p.cR, p.cA)}
    /\ log' = log \o <<Failed("stage2", p.run),
                       Sent("save", p.run, saveUrl(conditionType),
                            dataKey(conditionType), p.cR, p.cA, Undefined)>>
    /\ UNCHANGED <<conditionType, loading, stage1Result, answers, currentQ, run>>

Stage2Fail(p) ==
    /\ p \in inflight /\ p.kind = "stage2"
    /\ SubmitFailed(p)

\* the save POST resolved: finally of handleSubmitAnswers
SaveOk(p) ==
    /\ p \in inflight /\ p.kind = "save"
    /\ loading' = FALSE
    /\ inflight' = inflight \ {p}
    /\ log' = Append(log, Ok("save", p.run, NullResult, Undefined))
    /\ UNCHANGED <<conditionType, stage, stage1Result, answers, currentQ,
                   finalReport, run>>

\* variant: a failed save leaves the report on screen
SaveFailKeepsReport(p) ==
    /\ p \in inflight /\ p.kind = "save"
    /\ loading' = FALSE
    /\ inflight' = inflight \ {p}
    /\ log' = log \o <<Failed(p.kind, p.run), Alert(p.run, SubmitAlert)>>
    /\ UNCHANGED <<conditionType, stage, stage1Result, answers, currentQ,
                   finalReport, run>>

SaveFail(p) ==
    /\ p \in inflight /\ p.kind = "save"
    /\ SubmitFailed(p)

AnalysisInit ==
    /\ stage = "idle"
    /\ loading = FALSE
    /\ stage1Result = NullResult
    /\ answers = <<>>
    /\ currentQ = 0
    /\ finalReport = Null
    /\ inflight = {}
    /\ run = 0
    /\ log = <<>>

----------------------------------------------------------------------------
(* AISummary *)

CaseIds == {"case1", "case2", "case3"}
Summaries == {Undefined, "summaryA", "summaryB"}    \* passedPatient.aiSummary
PatientTypes == {"wound", "skin", "other"}          \* passedPatient.conditionType

\* location.state?.patient || null
NoPatient == [present |-> FALSE, conditionType |-> "", aiSummary |-> Undefined]
Patients ==
    {NoPatient} \cup
    {[present |-> TRUE, conditionType |-> t, aiSummary |-> a] :
        t \in PatientTypes, a \in Summaries}

RECURSIVE SeqsUpTo(_, _)
SeqsUpTo(S, n) ==
    IF n = 0 THEN {<<>>}
    ELSE LET shorter == SeqsUpTo(S, n - 1) IN
         shorter \cup {Append(q, x) : q \in shorter, x \in S}

\* res.data of GET /cases/{ref}: with or without a cases field
CasesData ==
    {[hasCases |-> FALSE, cases |-> <<>>]} \cup
    {[hasCases |-> TRUE, cases |-> c] : c \in SeqsUpTo(CaseIds, MaxCases)}

NoPatientError == "No patient data received."
LoadError == "Failed to load AI Summary."

SummaryMounted ==
    /\ sLoading = TRUE
    /\ aiData = Null
    /\ error = ""
    /\ sPc = "mounted"
    /\ sLog = <<>>

\* the effect: the !passedPatient exit, or loadAI up to its await (the
\* wound/skin branch has no await and runs through finally)
SummaryEffect ==
    /\ sPc = "mounted"
    /\ IF ~passedPatient.present
       THEN /\ error' = NoPatientError
            /\ sLoading' = FALSE
            /\ sPc' = "done"
            /\ UNCHANGED <<aiData, sLog>>
       ELSE IF passedPatient.conditionType \in {"wound", "skin"}
       THEN /\ aiData' = passedPatient.aiSummary
            /\ sLoading' = FALSE
            /\ sPc' = "done"
            /\ UNCHANGED <<error, sLog>>
       ELSE /\ sLog' = Append(sLog, [ev |-> "sent", route |-> "/cases/" \o ref,
                                     data |-> [hasCases |-> FALSE, cases |-> <<>>]])
            /\ sPc' = "getCases"
            /\ UNCHANGED <<aiData, error, sLoading>>
    /\ UNCHANGED <<passedPatient, ref>>

\* variant: the first case is taken for the latest
latestIsFirst(d) ==
    LET cases == IF d.hasCases THEN d.cases ELSE <<>> IN
    IF Len(cases) > 0 THEN cases[1] ELSE Null

\* cases = res.data.cases || []; latest = last element or null
latest(d) ==
    LET cases == IF d.hasCases THEN d.cases ELSE <<>> IN
    IF Len(cases) > 0 THEN cases[Len(cases)] ELSE Null

CasesOk(d) ==
    /\ sPc = "getCases"
    /\ aiData' = latest(d)
    /\ sLoading' = FALSE
    /\ sPc' = "done"
    /\ sLog' = Append(sLog, [ev |-> "ok", route |-> "/cases/" \o ref, data |-> d])
    /\ UNCHANGED <<passedPatient, ref, error>>

CasesFail ==
    /\ sPc = "getCases"
    /\ error' = LoadError
    /\ sLoading' = FALSE
    /\ sPc' = "done"
    /\ sLog' = Append(sLog, [ev |-> "failed", route |-> "/cases/" \o ref,
                             data |-> [hasCases |-> FALSE, cases |-> <<>>]])
    /\ UNCHANGED <<passedPatient, ref, aiData>>

----------------------------------------------------------------------------
(* WoundCareAI *)

PhotoUrls == {Undefined, "", "photo1.jpg"}      \* photos[i].url
PageRefs == {"", "P-1001"}
ErrorStatuses == {401, 500}                     \* err.response?.status

\* res.data of GET /patients/{ref}: with or without a photos field
PatientData ==
    {[hasPhotos |-> FALSE, photos |-> <<>>]} \cup
    {[hasPhotos |-> TRUE, photos |-> ph] : ph \in SeqsUpTo(PhotoUrls, MaxPhotos)}

NoImageAlert == "No image found for this patient."
SessionAlert == "Session expired. Please log in again."
FetchPatientAlert == "Failed to fetch patient data."

\* {imageUrl ? (<> <img .../> <AIImageAnalysis conditionType="wound" .../> </>)
AnalysisMounted == ~Falsy(imageUrl)

PageMounted ==
    /\ imageUrl = Null
    /\ pageLoading = TRUE
    /\ pageAlert = ""
    /\ pagePc = "mounted"

\* a page that has obtained its photo and shows the wizard
PageWithImage ==
    /\ pageRef = "P-1001"
    /\ imageUrl = "photo1.jpg"
    /\ pageLoading = FALSE
    /\ pageAlert = ""
    /\ pagePc = "done"

\* the effect: if (ref) fetchPatientImage(), up to `await http.get`
PageEffect ==
    /\ pagePc = "mounted"
    /\ pagePc' = (IF pageRef # "" THEN "getPatient" ELSE "done")
    /\ UNCHANGED <<pageRef, imageUrl, pageLoading, pageAlert>>

\* GET /patients/{ref} resolved with res.data = d
PatientOk(d) ==
    /\ pagePc = "getPatient"
    /\ LET photos == IF d.hasPhotos THEN d.photos ELSE <<>> IN
       IF Len(photos) > 0
       THEN imageUrl' = photos[1] /\ UNCHANGED pageAlert
       ELSE pageAlert' = NoImageAlert /\ UNCHANGED imageUrl
    /\ pageLoading' = FALSE
    /\ pagePc' = "done"
    /\ UNCHANGED pageRef

\* GET /patients/{ref} rejected: catch and finally; a 401 sends the browser
\* to /login
PatientFail(status) ==
    /\ pagePc = "getPatient"
    /\ IF status = 401
       THEN pageAlert' = SessionAlert /\ pagePc' = "login"
       ELSE pageAlert' = FetchPatientAlert /\ pagePc' = "done"
    /\ pageLoading' = FALSE
    /\ UNCHANGED <<pageRef, imageUrl>>

----------------------------------------------------------------------------
(* Specifications *)

Init ==
    /\ conditionType \in ConditionTypes
    /\ AnalysisInit
    /\ passedPatient = NoPatient
    /\ ref = Null
    /\ SummaryMounted
    /\ PageWithImage

Next ==
    \/ (ClickAnalyze /\ UNCHANGED <<summaryVars, pageVars>>)
    \/ (\E p \in inflight : FetchOk(p) /\ UNCHANGED <<summaryVars, pageVars>>)
    \/ (\E p \in inflight : FetchFail(p) /\ UNCHANGED <<summaryVars, pageVars>>)
    \/ (\E p \in inflight : \E d \in Stage1Data(p.run) :
            Stage1Ok(p, d) /\ UNCHANGED <<summaryVars, pageVars>>)
    \/ (\E p \in inflight : Stage1Fail(p) /\ UNCHANGED <<summaryVars, pageVars>>)
    \/ (\E v \in AnswerTexts : handleAnswerChange(v) /\ UNCHANGED <<summaryVars, pageVars>>)
    \/ (nextQuestion /\ UNCHANGED <<summaryVars, pageVars>>)
    \/ (\E p \in inflight : \E fr \in ReportTexts :
            Stage2Ok(p, fr) /\ UNCHANGED <<summaryVars, pageVars>>)
    \/ (\E p \in inflight : Stage2Fail(p) /\ UNCHANGED <<summaryVars, pageVars>>)
    \/ (\E p \in inflight : SaveOk(p) /\ UNCHANGED <<summaryVars, pageVars>>)
    \/ (\E p \in inflight : SaveFail(p) /\ UNCHANGED <<summaryVars, pageVars>>)

Spec == Init /\ [][Next]_vars

InitSummary ==
    /\ conditionType = "wound"
    /\ AnalysisInit
    /\ passedPatient \in Patients
    /\ ref \in {Null, "P-1001"}
    /\ SummaryMounted
    /\ PageWithImage

NextSummary ==
    \/ (SummaryEffect /\ UNCHANGED <<analysisVars, pageVars>>)
    \/ (\E d \in CasesData : CasesOk(d) /\ UNCHANGED <<analysisVars, pageVars>>)
    \/ (CasesFail /\ UNCHANGED <<analysisVars, pageVars>>)

SpecSummary == InitSummary /\ [][NextSummary]_vars

\* WoundCareAI from its mount, with the wizard it renders once imageUrl is set
InitPage ==
    /\ conditionType = "wound"
    /\ AnalysisInit
    /\ passedPatient = NoPatient
    /\ ref = Null
    /\ SummaryMounted
    /\ pageRef \in PageRefs
    /\ PageMounted

NextPage ==
    \/ (PageEffect /\ UNCHANGED <<analysisVars, summaryVars>>)
    \/ (\E d \in PatientData : PatientOk(d) /\ UNCHANGED <<analysisVars, summaryVars>>)
    \/ (\E st \in ErrorStatuses :
            PatientFail(st) /\ UNCHANGED <<analysisVars, summaryVars>>)
    \/ (AnalysisMounted /\ pagePc = "done" /\ Next)

SpecPage == InitPage /\ [][NextPage]_vars

----------------------------------------------------------------------------
(* Reading the history *)

Idx == 1..Len(log)
IsSent(e, req) == e.ev = "sent" /\ e.req = req
IsOk(e, req) == e.ev = "ok" /\ e.req = req
IsFailed(e) == e.ev = "failed"
IsClick(e) == e.ev = "click"
ZeroQuestions(d) == ~d.hasQuestions \/ d.nq = 0

\* the entries the current step appends to the log
StepLogs(ev, req) ==
    \E i \in (Len(log) + 1)..Len(log') : log'[i].ev = ev /\ log'[i].req = req
StepLogsFailure ==
    \E i \in (Len(log) + 1)..Len(log') : log'[i].ev = "failed"

----------------------------------------------------------------------------
(* Properties *)

\* C1: once the stage-1 request of the current run has succeeded with an
\* absent or empty questions list, and no request has failed since, the stage
\* is never `questions` nor `idle`: it is `generating` while stage 2 runs and
\* `report` from then on, in particular once the save has succeeded.  This is
\* stated for every run, the first run of a freshly mounted component included.
C1_ZeroQuestionsGoToReport ==
    \A i \in Idx :
        ( /\ IsOk(log[i], "stage1")
          /\ ZeroQuestions(log[i].s1)
          /\ log[i].run = run
          /\ ~ \E j \in Idx : j > i /\ IsFailed(log[j]) )
        => /\ stage \in {"generating", "report"}
           /\ (\E j \in Idx : j > i /\ IsOk(log[j], "save")) => stage = "report"

\* C2: every request failure is followed at once by an alert, and from then
\* until the next click the stage is `idle` and loading is false, whichever of
\* the four requests failed.
C2_FailureAlertsAndResets ==
    \A i \in Idx :
        IsFailed(log[i])
        => /\ i < Len(log)
           /\ log[i + 1].ev = "alert"
           /\ (~ \E j \in Idx : j > i /\ IsClick(log[j]))
              => (stage = "idle" /\ loading = FALSE)

\* C2 witness: the save request, sent when the report was already on screen,
\* has just failed.
C2_Witness ==
    /\ Len(log) >= 2
    /\ IsFailed(log[Len(log) - 1])
    /\ log[Len(log) - 1].req = "save"
    /\ stage = "idle"

\* C3: the stage is always one of the five values, and it only changes by a
\* forward step (idle to analyzing on the Analyze click, analyzing to questions
\* or generating on a stage-1 success, questions to generating on submitting
\* the last answer, generating to report on a stage-2 success) or by the step
\* to idle of a handler whose request failed.
C3_AllowedStep ==
    \/ stage = "idle" /\ stage' = "analyzing" /\ StepLogs("click", "analyze")
    \/ stage = "analyzing" /\ stage' \in {"questions", "generating"}
                           /\ StepLogs("ok", "stage1")
    \/ stage = "questions" /\ stage' = "generating" /\ StepLogs("click", "generate")
    \/ stage = "generating" /\ stage' = "report" /\ StepLogs("ok", "stage2")
    \/ stage' = "idle" /\ StepLogsFailure

C3_StageMachine ==
    /\ [](stage \in Stages)
    /\ [][stage' # stage => C3_AllowedStep]_vars

\* C4: in the history, every stage-2 request comes after a successful stage-1
\* response of its own run, every save request comes after a successful
\* stage-2 response of its own run, and a run has no more save requests than
\* successful stage-2 responses.
C4_CallsInOrder ==
    /\ \A i \in Idx : IsSent(log[i], "stage2")
          => \E j \in Idx : j < i /\ IsOk(log[j], "stage1") /\ log[j].run = log[i].run
    /\ \A i \in Idx : IsSent(log[i], "save")
          => \E j \in Idx : j < i /\ IsOk(log[j], "stage2") /\ log[j].run = log[i].run
    /\ \A r \in 1..run :
          Cardinality({i \in Idx : IsSent(log[i], "save") /\ log[i].run = r})
            <= Cardinality({j \in Idx : IsOk(log[j], "stage2") /\ log[j].run = r})

\* C4 witness: a run that went through all three calls without showing a
\* question.
C4_Witness ==
    \E i, j, k \in Idx :
        /\ i < j /\ j < k
        /\ IsOk(log[i], "stage1") /\ ZeroQuestions(log[i].s1)
        /\ IsSent(log[j], "stage2") /\ log[j].run = log[i].run
        /\ IsSent(log[k], "save") /\ log[k].run = log[i].run

\* C5: at most one handler is waiting on a request.
C5_OneRequestInFlight == Cardinality(inflight) <= 1

\* C5 witness: the stage-2 request is in flight while loading is already
\* false again, so only the stage keeps the buttons away.
C5_Witness ==
    /\ loading = FALSE
    /\ \E p \in inflight : p.kind = "stage2"

\* C6: every stage-2 request carries the stage-1 response that its own run
\* received (so not null and not an earlier run's), and as many answers as
\* that response has questions.
C6_Stage2CarriesOwnStage1 ==
    \A i \in Idx :
        IsSent(log[i], "stage2")
        => /\ log[i].s1 # NullResult
           /\ \E j \in Idx :
                /\ j < i
                /\ IsOk(log[j], "stage1")
                /\ log[j].run = log[i].run
                /\ log[i].s1 = log[j].s1
                /\ Len(log[i].answers) = log[j].s1.nq

\* every save request carries the final_report of the stage-2 response that
\* triggered it and the answers that were sent to stage 2 in its run
C7_SavedIsStage2Output(i) ==
    /\ i > 1
    /\ IsOk(log[i - 1], "stage2")
    /\ log[i - 1].run = log[i].run
    /\ log[i].report = log[i - 1].report
    /\ \E j \in Idx : /\ j < i
                       /\ IsSent(log[j], "stage2")
                       /\ log[j].run = log[i].run
                       /\ log[j].answers = log[i].answers

\* C7 as stated: the saved report is the stage-2 report of the same run and is
\* the text on screen in stage `report`, whatever final_report was; the saved
\* answers are those sent to stage 2.
C7_SavedIsDisplayed ==
    /\ \A i \in Idx : IsSent(log[i], "save") => C7_SavedIsStage2Output(i)
    /\ stage = "report"
         => \E i \in Idx : /\ IsSent(log[i], "save")
                            /\ log[i].run = run
                            /\ log[i].report = finalReport

\* C7 amended: the saved report is the final_report of the stage-2 response of
\* the same run, unchanged; the text on screen in stage `report` is that same
\* text when it is a non-empty string and the placeholder
\* "No detailed AI report available." when final_report is absent or empty;
\* the saved answers are those sent to stage 2.
C7_SavedIsRawReport ==
    /\ \A i \in Idx : IsSent(log[i], "save") => C7_SavedIsStage2Output(i)
    /\ stage = "report"
         => \E i \in Idx :
                /\ IsSent(log[i], "save")
                /\ log[i].run = run
                /\ log[i].report \notin {Undefined, ""} => finalReport = log[i].report
                /\ log[i].report \in {Undefined, ""}
                     => finalReport = "No detailed AI report available."

\* C7 witness: a report without final_report is on screen and its save has
\* been sent.
C7_Witness ==
    /\ stage = "report"
    /\ \E i \in Idx : /\ IsSent(log[i], "save")
                       /\ log[i].run = run
                       /\ log[i].report = Undefined

SummaryGets == {i \in 1..Len(sLog) : sLog[i].ev = "sent"}

\* C9: AISummary sends GET /cases/{ref} exactly when a patient was passed whose
\* conditionType is neither wound nor skin.  When the effect is over, loading
\* is false; aiData is the passed aiSummary for wound and skin, the last
\* element of the returned cases or null (empty or absent list) otherwise; and
\* without a passed patient the error is "No patient data received.".
C9_SummaryLoad ==
    /\ SummaryGets # {}
         => (passedPatient.present
             /\ passedPatient.conditionType \notin {"wound", "skin"})
    /\ Cardinality(SummaryGets) <= 1
    /\ sPc # "mounted"
         => ((passedPatient.present
              /\ passedPatient.conditionType \notin {"wound", "skin"})
             => SummaryGets # {})
    /\ sPc = "done"
         => /\ sLoading = FALSE
            /\ ~passedPatient.present
                 => (error = "No patient data received." /\ aiData = Null)
            /\ (passedPatient.present
                /\ passedPatient.conditionType \in {"wound", "skin"})
                 => (aiData = passedPatient.aiSummary /\ error = "")
            /\ \A i \in 1..Len(sLog) :
                 sLog[i].ev = "ok"
                 => aiData = (IF sLog[i].data.hasCases /\ Len(sLog[i].data.cases) > 0
                              THEN sLog[i].data.cases[Len(sLog[i].data.cases)]
                              ELSE Null)
            /\ \A i \in 1..Len(sLog) : sLog[i].ev = "failed" => error # ""

\* C9 witness: the request returned two different cases and the second one is
\* shown.
C9_Witness ==
    /\ sPc = "done"
    /\ \E i \in 1..Len(sLog) :
         /\ sLog[i].ev = "ok"
         /\ Len(sLog[i].data.cases) = 2
         /\ sLog[i].data.cases[1] # sLog[i].data.cases[2]
         /\ aiData = sLog[i].data.cases[2]

\* C10: a request is only ever sent right after a user click or right after
\* the successful response of the request before it in the same run; no
\* request of a run is sent twice; and after a failure the next request, if
\* any, is the image fetch of a new Analyze click.
C10_Preceding(req) ==
    IF req = "stage1" THEN "fetch"
    ELSE IF req = "stage2" THEN "stage1"
    ELSE IF req = "save" THEN "stage2"
    ELSE "none"

C10_NoRetry ==
    /\ \A i \in Idx :
         log[i].ev = "sent"
         => /\ i > 1
            /\ \/ (log[i].req = "fetch" /\ log[i - 1].ev = "click"
                     /\ log[i - 1].req = "analyze")
               \/ (log[i].req = "stage2" /\ log[i - 1].ev = "click"
                     /\ log[i - 1].req = "generate")
               \/ (IsOk(log[i - 1], C10_Preceding(log[i].req))
                     /\ log[i - 1].run = log[i].run)
    /\ \A i, j \in Idx :
         (log[i].ev = "sent" /\ log[j].ev = "sent"
          /\ log[i].req = log[j].req /\ log[i].run = log[j].run) => i = j
    /\ \A i, j \in Idx :
         (IsFailed(log[i]) /\ j > i /\ log[j].ev = "sent")
         => \E k \in Idx : k > i /\ k < j /\ log[k].ev = "click"
                                     /\ log[k].req = "analyze"

\* C10 witness: a stage-1 POST failed and a later Analyze click led to a new
\* stage-1 POST.
C10_Witness ==
    \E i, j \in Idx :
        /\ i < j
        /\ IsFailed(log[i]) /\ log[i].req = "stage1"
        /\ IsSent(log[j], "stage1")

\* C11: every stage-2 request sent by the Generate click of the questions card
\* carries a non-empty answer for every question of the stage-1 response of
\* its run.
C11_EveryQuestionAnswered ==
    \A i \in Idx :
        (IsSent(log[i], "stage2") /\ i > 1 /\ log[i - 1].ev = "click")
        => \E j \in Idx :
             /\ j < i
             /\ IsOk(log[j], "stage1")
             /\ log[j].run = log[i].run
             /\ \A k \in 0..(log[j].s1.nq - 1) :
                  At(log[i].answers, k) \notin {Undefined, Null, ""}

\* C12: in stage `questions` the index is within the questions of the current
\* response, and every step that enters `questions` leaves currentQ = 0 and
\* all answers empty.
C12_WizardStartsAtFirstQuestion ==
    /\ [](stage = "questions"
            => (0 <= currentQ /\ currentQ < stage1Result.nq))
    /\ [][(stage # "questions" /\ stage' = "questions")
            => (currentQ' = 0
                /\ Len(answers') = stage1Result'.nq
                /\ \A k \in 1..Len(answers') : answers'[k] = "")]_vars

\* C13: a report that is on screen with no request pending has been saved: the
\* save request of the current run succeeded.
C13_ShownReportIsSaved ==
    (stage = "report" /\ inflight = {})
    => \E i \in Idx : IsOk(log[i], "save") /\ log[i].run = run

\* C13 witness: the report is on screen after its save went through.
C13_Witness ==
    /\ stage = "report"
    /\ inflight = {}
    /\ loading = FALSE
    /\ finalReport # Null

\* C14: once fetchPatientImage is over, or was never started, the page's
\* loading flag is false, whatever the ref parameter was; and the wizard sends
\* requests only on a page that holds a photo URL.
C14_PageStopsLoading ==
    /\ pagePc \in {"done", "login"} => pageLoading = FALSE
    /\ (\E i \in Idx : log[i].ev = "sent") => (imageUrl \notin {Undefined, Null, ""})

====
